---- MODULE Spec2Model ----
(***************************************************************************)
(* causica.distributions.transforms.JointTransform: a transform over a     *)
(* TensorDict that applies a different torch.distributions Transform to    *)
(* each registered key.                                                    *)
(*                                                                         *)
(* A tensor is a one-dimensional tensor of integers, written as a          *)
(* sequence; its shape is its length.  A TensorDict is a function from a   *)
(* set of keys to tensors.  The elementary transforms are elementwise      *)
(* integer maps with the interface of torch.distributions.Transform,       *)
(* including its one-slot cache that is looked up by object identity.      *)
(***************************************************************************)
EXTENDS Integers, Sequences, FiniteSets, TLC

MaxVal == 0
MaxLen == 2
MaxCacheSize == 2
MaxChain == 1

Keys == {"a", "b"}
Val == (0 - 1)..MaxVal
CacheSizes == (0 - 1)..MaxCacheSize

\* the tensors a caller builds from scratch: torch.tensor([v]) and
\* torch.zeros(n)
Tensors == {<<v>> : v \in Val} \cup {[i \in 1..n |-> 0] : n \in 1..MaxLen}

\* the TensorDicts a caller builds from scratch: one tensor under each key
TensorDicts == UNION {[K -> {t}] : K \in SUBSET Keys, t \in Tensors}

Empty == [k \in {} |-> <<>>]

\* None in a cache slot of td.Transform (_cached_x_y = None, None)
None == <<>>
NoCache == [x |-> None, y |-> None]

\* ---- the elementary transforms the caller supplies ----------------------
\* Shift is AffineTransform(loc=1, scale=1); Abs is an absolute-value
\* transform that declares itself non-bijective and whose inverse is the
\* identity.
Names == {"Shift", "Abs"}

Transform(n, c) == [isTransform |-> TRUE, name |-> n, cache_size |-> c]
NotATransform == [isTransform |-> FALSE, name |-> "str", cache_size |-> 0]

\* transforms are made with the default cache_size 0; one is supplied with its
\* cache already enabled
SuppliedValues ==
    {Transform(n, 0) : n \in Names} \cup {Transform("Shift", 1)} \cup {NotATransform}
Mappings == UNION {[K -> SuppliedValues] : K \in SUBSET Keys}

AbsInt(v) == IF v < 0 THEN 0 - v ELSE v

\* t._call(x)
ElemForward(t, x) ==
    CASE t.name = "Shift" -> [i \in 1..Len(x) |-> x[i] + 1]
      [] t.name = "Abs"   -> [i \in 1..Len(x) |-> AbsInt(x[i])]

\* t._inverse(y)
ElemInverse(t, y) ==
    CASE t.name = "Shift" -> [i \in 1..Len(y) |-> y[i] - 1]
      [] t.name = "Abs"   -> y

\* t.log_abs_det_jacobian(x, y): the log of the absolute derivative, which is 0
\* for both transforms, expanded to the shape of x
ElemLogAbsDetJacobian(t, x, y) == [i \in 1..Len(x) |-> 0]

\* t.bijective
ElemBijective(t) == t.name # "Abs"

\* t.with_cache(cache_size); Transform.__init__ accepts only 0 and 1
WithCacheRaises(t, c) == t.cache_size # c /\ c \notin {0, 1}
with_cache(t, c) == IF t.cache_size = c THEN t ELSE [t EXCEPT !.cache_size = c]

\* torch.ones_like(x)
ones_like(x) == [i \in 1..Len(x) |-> 1]

\* t(x): Transform.__call__ with its one-slot cache.  same says that x is the
\* very object held in the cache slot.
TransformCall(t, c, x, same) ==
    IF t.cache_size = 0 THEN [ret |-> ElemForward(t, x), cache |-> c]
    ELSE IF same THEN [ret |-> c.y, cache |-> c]
    ELSE [ret |-> ElemForward(t, x), cache |-> [x |-> x, y |-> ElemForward(t, x)]]

\* t.inv(y): Transform._inv_call
TransformInvCall(t, c, y, same) ==
    IF t.cache_size = 0 THEN [ret |-> ElemInverse(t, y), cache |-> c]
    ELSE IF same THEN [ret |-> c.x, cache |-> c]
    ELSE [ret |-> ElemInverse(t, y), cache |-> [x |-> ElemInverse(t, y), y |-> y]]

\* ---- TensorDict ---------------------------------------------------------
\* td.clone()
clone(td) == [k \in DOMAIN td |-> td[k]]

\* td.update(d): overwrite or add the entries of d
update(td, d) ==
    [k \in DOMAIN td \cup DOMAIN d |-> IF k \in DOMAIN d THEN d[k] ELSE td[k]]

\* ---- state --------------------------------------------------------------
VARIABLES
    state,            \* "new", "constructed" or "failed" (no object exists)
    supplied,         \* the transformations argument of __init__
    cache_size,       \* the cache_size argument of __init__
    transformations,  \* self.transformations
    cached_x_y,       \* the cache slot of each stored transform
    op,               \* the last operation called
    args,             \* the argument TensorDicts as they are after the call
    passed,           \* the argument TensorDicts as they were passed
    result,           \* the TensorDict the last call returned
    flag,             \* the boolean the last read of bijective returned
    outcome,          \* "none", "ok" or the exception raised
    message,          \* the message of the exception raised
    hits,             \* the keys whose argument tensor was the object in the cache slot
    origin,           \* <<x>> when _inverse was given the result of _call on x, or
                      \* _call the result of _inverse on x; <<>> otherwise
    chain             \* how many calls in a row were given the previous result

vars == <<state, supplied, cache_size, transformations, cached_x_y, op, args,
          passed, result, flag, outcome, message, hits, origin, chain>>

Init ==
    /\ state = "new"
    /\ supplied = Empty
    /\ cache_size = 0
    /\ transformations = Empty
    /\ cached_x_y = Empty
    /\ op = "none"
    /\ args = <<>>
    /\ passed = <<>>
    /\ result = Empty
    /\ flag = FALSE
    /\ outcome = "none"
    /\ message = ""
    /\ hits = {}
    /\ origin = <<>>
    /\ chain = 0

\* ---- JointTransform ------------------------------------------------------
MsgType == "All transformations must be of type torch.distributions.Transform"
MsgCacheSize == "cache_size must be 0 or 1"
MsgInX == "All keys in transformations must be in x."
MsgInY == "All keys in transformations must be in y."
MsgSameKeys == "x and y must have the same keys."
MsgInXY == "All keys in transformations must be in x and y."

Raise(type, msg, reg) ==
    [outcome |-> type, message |-> msg, transformations |-> reg]

\* __init__ with the assert stripped
JointTransformInitNoAssert(m, c) ==
    IF c # 0 /\ \E k \in DOMAIN m : ~m[k].isTransform
    THEN Raise("AttributeError", "'str' object has no attribute 'with_cache'", Empty)
    ELSE IF c # 0 /\ \E k \in DOMAIN m : WithCacheRaises(m[k], c)
    THEN Raise("ValueError", MsgCacheSize, Empty)
    ELSE IF c \notin {0, 1}
    THEN Raise("ValueError", MsgCacheSize, Empty)
    ELSE [outcome |-> "ok", message |-> "",
          transformations |-> IF c # 0 THEN [k \in DOMAIN m |-> with_cache(m[k], c)]
                              ELSE m]

\* __init__ that validates as the code does and stores the mapping as supplied
JointTransformInitAsSupplied(m, c) ==
    IF \E k \in DOMAIN m : ~m[k].isTransform
    THEN Raise("AssertionError", MsgType, Empty)
    ELSE IF c \notin {0, 1}
    THEN Raise("ValueError", MsgCacheSize, Empty)
    ELSE [outcome |-> "ok", message |-> "", transformations |-> m]

\* __init__ that takes every cache_size other than 0 as 1
JointTransformInitAnyCacheSize(m, c) ==
    IF \E k \in DOMAIN m : ~m[k].isTransform
    THEN Raise("AssertionError", MsgType, Empty)
    ELSE [outcome |-> "ok", message |-> "",
          transformations |-> IF c # 0 THEN [k \in DOMAIN m |-> with_cache(m[k], 1)]
                              ELSE m]

\* JointTransform.__init__(transformations, cache_size)
JointTransformInit(m, c) ==
    IF \E k \in DOMAIN m : ~m[k].isTransform
    THEN Raise("AssertionError", MsgType, Empty)
    ELSE IF c # 0 /\ \E k \in DOMAIN m : WithCacheRaises(m[k], c)
    THEN Raise("ValueError", MsgCacheSize, Empty)
    ELSE IF c \notin {0, 1}
    THEN Raise("ValueError", MsgCacheSize, Empty)
    ELSE [outcome |-> "ok", message |-> "",
          transformations |-> IF c # 0 THEN [k \in DOMAIN m |-> with_cache(m[k], c)]
                              ELSE m]

Failed(type, msg, xs, caches) ==
    [outcome |-> type, message |-> msg, ret |-> Empty, after |-> xs, cache |-> caches]

\* _call that transforms the registered keys x has and skips the others
JointCallPartial(reg, caches, x, same) ==
    LET r == [k \in DOMAIN reg \cap DOMAIN x |->
                 TransformCall(reg[k], caches[k], x[k], k \in same)]
    IN [outcome |-> "ok", message |-> "",
        ret |-> update(clone(x), [k \in DOMAIN r |-> r[k].ret]),
        after |-> <<x>>,
        cache |-> [k \in DOMAIN reg |-> IF k \in DOMAIN r THEN r[k].cache ELSE caches[k]]]

\* _call that returns the transformed entries alone
JointCallOnlyRegistered(reg, caches, x, same) ==
    IF ~(DOMAIN reg \subseteq DOMAIN x)
    THEN Failed("ValueError", MsgInX, <<x>>, caches)
    ELSE LET r == [k \in DOMAIN reg |-> TransformCall(reg[k], caches[k], x[k], k \in same)]
         IN [outcome |-> "ok", message |-> "",
             ret |-> [k \in DOMAIN reg |-> r[k].ret],
             after |-> <<x>>,
             cache |-> [k \in DOMAIN reg |-> r[k].cache]]

\* _call that updates x itself instead of a clone
JointCallInPlace(reg, caches, x, same) ==
    IF ~(DOMAIN reg \subseteq DOMAIN x)
    THEN Failed("ValueError", MsgInX, <<x>>, caches)
    ELSE LET r == [k \in DOMAIN reg |-> TransformCall(reg[k], caches[k], x[k], k \in same)]
             u == update(x, [k \in DOMAIN reg |-> r[k].ret])
         IN [outcome |-> "ok", message |-> "", ret |-> u, after |-> <<u>>,
             cache |-> [k \in DOMAIN reg |-> r[k].cache]]

\* JointTransform._call(x); same is the set of keys whose tensor in x is the
\* object held in that key's cache slot
JointCall(reg, caches, x, same) ==
    IF ~(DOMAIN reg \subseteq DOMAIN x)
    THEN Failed("ValueError", MsgInX, <<x>>, caches)
    ELSE LET r == [k \in DOMAIN reg |-> TransformCall(reg[k], caches[k], x[k], k \in same)]
         IN [outcome |-> "ok", message |-> "",
             ret |-> update(clone(x), [k \in DOMAIN reg |-> r[k].ret]),
             after |-> <<x>>,
             cache |-> [k \in DOMAIN reg |-> r[k].cache]]

\* _inverse that applies the transforms forwards
JointInverseForward(reg, caches, y, same) ==
    IF ~(DOMAIN reg \subseteq DOMAIN y)
    THEN Failed("ValueError", MsgInY, <<y>>, caches)
    ELSE LET r == [k \in DOMAIN reg |-> TransformCall(reg[k], caches[k], y[k], FALSE)]
         IN [outcome |-> "ok", message |-> "",
             ret |-> update(clone(y), [k \in DOMAIN reg |-> r[k].ret]),
             after |-> <<y>>,
             cache |-> [k \in DOMAIN reg |-> r[k].cache]]

\* JointTransform._inverse(y)
JointInverse(reg, caches, y, same) ==
    IF ~(DOMAIN reg \subseteq DOMAIN y)
    THEN Failed("ValueError", MsgInY, <<y>>, caches)
    ELSE LET r == [k \in DOMAIN reg |-> TransformInvCall(reg[k], caches[k], y[k], k \in same)]
         IN [outcome |-> "ok", message |-> "",
             ret |-> update(clone(y), [k \in DOMAIN reg |-> r[k].ret]),
             after |-> <<y>>,
             cache |-> [k \in DOMAIN reg |-> r[k].cache]]

\* log_abs_det_jacobian with zeros under the keys that are not registered
JointLogAbsDetJacobianZeros(reg, caches, x, y) ==
    IF DOMAIN x # DOMAIN y
    THEN Failed("ValueError", MsgSameKeys, <<x, y>>, caches)
    ELSE IF ~(DOMAIN reg \subseteq DOMAIN x)
    THEN Failed("ValueError", MsgInXY, <<x, y>>, caches)
    ELSE [outcome |-> "ok", message |-> "",
          ret |-> update(clone(x),
                         [k \in DOMAIN x |->
                             IF k \in DOMAIN reg
                             THEN ElemLogAbsDetJacobian(reg[k], x[k], y[k])
                             ELSE [i \in 1..Len(x[k]) |-> 0]]),
          after |-> <<x, y>>,
          cache |-> caches]

\* log_abs_det_jacobian with its two checks in the other order
JointLogAbsDetJacobianSwapped(reg, caches, x, y) ==
    IF ~(DOMAIN reg \subseteq DOMAIN x)
    THEN Failed("ValueError", MsgInXY, <<x, y>>, caches)
    ELSE IF DOMAIN x # DOMAIN y
    THEN Failed("ValueError", MsgSameKeys, <<x, y>>, caches)
    ELSE [outcome |-> "ok", message |-> "",
          ret |-> update(clone(x),
                         [k \in DOMAIN x |->
                             IF k \in DOMAIN reg
                             THEN ElemLogAbsDetJacobian(reg[k], x[k], y[k])
                             ELSE ones_like(x[k])]),
          after |-> <<x, y>>,
          cache |-> caches]

\* JointTransform.log_abs_det_jacobian(x, y)
JointLogAbsDetJacobian(reg, caches, x, y) ==
    IF DOMAIN x # DOMAIN y
    THEN Failed("ValueError", MsgSameKeys, <<x, y>>, caches)
    ELSE IF ~(DOMAIN reg \subseteq DOMAIN x)
    THEN Failed("ValueError", MsgInXY, <<x, y>>, caches)
    ELSE [outcome |-> "ok", message |-> "",
          ret |-> update(clone(x),
                         [k \in DOMAIN x |->
                             IF k \in DOMAIN reg
                             THEN ElemLogAbsDetJacobian(reg[k], x[k], y[k])
                             ELSE ones_like(x[k])]),
          after |-> <<x, y>>,
          cache |-> caches]

\* bijective with any in place of all
JointBijectiveAny(reg) == \E k \in DOMAIN reg : ElemBijective(reg[k])

\* JointTransform.bijective
JointBijective(reg) == \A k \in DOMAIN reg : ElemBijective(reg[k])

\* ---- the caller ----------------------------------------------------------
Returned == outcome = "ok" /\ op \in {"_call", "_inverse", "log_abs_det_jacobian"}

\* a TensorDict built from scratch, or the one the previous call returned
Arguments == TensorDicts \cup (IF Returned /\ chain < MaxChain THEN {result} ELSE {})

\* the arguments of log_abs_det_jacobian: the elementary transforms and
\* ones_like read only the shape of x, so an x built from scratch varies in
\* its key set and its shape, and a y built from scratch in its key set; the
\* x and the result of the previous call can be passed as well
Preimages ==
    UNION {[K -> {[i \in 1..n |-> 0]}] : K \in SUBSET Keys, n \in 1..MaxLen}
        \cup (IF Returned /\ chain < MaxChain THEN {passed[1]} ELSE {})

Images ==
    {[k \in K |-> <<0>>] : K \in SUBSET Keys}
        \cup (IF Returned /\ chain < MaxChain THEN {result} ELSE {})

\* the keys of x whose tensor can be the object in the x slot of the cache
HitsX(x) ==
    {k \in DOMAIN transformations \cap DOMAIN x :
        cached_x_y[k].x # None /\ cached_x_y[k].x = x[k]}

HitsY(y) ==
    {k \in DOMAIN transformations \cap DOMAIN y :
        cached_x_y[k].y # None /\ cached_x_y[k].y = y[k]}

Construct(m, c) ==
    /\ state = "new"
    /\ LET r == JointTransformInit(m, c)
       IN /\ state' = IF r.outcome = "ok" THEN "constructed" ELSE "failed"
          /\ outcome' = r.outcome
          /\ message' = r.message
          /\ transformations' = r.transformations
          /\ cached_x_y' = [k \in DOMAIN r.transformations |-> NoCache]
    /\ supplied' = m
    /\ cache_size' = c
    /\ op' = "__init__"
    /\ UNCHANGED <<args, passed, result, flag, hits, origin, chain>>

Finish(name, r, xs, same, from) ==
    /\ op' = name
    /\ passed' = xs
    /\ args' = r.after
    /\ result' = r.ret
    /\ outcome' = r.outcome
    /\ message' = r.message
    /\ cached_x_y' = r.cache
    /\ hits' = same
    /\ origin' = IF Returned /\ op = from /\ xs[1] = result THEN <<passed[1]>> ELSE <<>>
    /\ chain' = IF \A i \in 1..Len(xs) : xs[i] \in TensorDicts THEN 0 ELSE chain + 1
    /\ UNCHANGED <<state, supplied, cache_size, transformations, flag>>

Call(x, same) ==
    /\ state = "constructed"
    /\ Finish("_call", JointCall(transformations, cached_x_y, x, same), <<x>>, same, "_inverse")

Inverse(y, same) ==
    /\ state = "constructed"
    /\ Finish("_inverse", JointInverse(transformations, cached_x_y, y, same), <<y>>, same, "_call")

LogAbsDetJacobian(x, y) ==
    /\ state = "constructed"
    /\ Finish("log_abs_det_jacobian",
              JointLogAbsDetJacobian(transformations, cached_x_y, x, y), <<x, y>>, {}, "none")

Bijective ==
    /\ state = "constructed"
    /\ op' = "bijective"
    /\ flag' = JointBijective(transformations)
    /\ outcome' = "ok"
    /\ message' = ""
    /\ passed' = <<>>
    /\ args' = <<>>
    /\ result' = Empty
    /\ hits' = {}
    /\ origin' = <<>>
    /\ chain' = 0
    /\ UNCHANGED <<state, supplied, cache_size, transformations, cached_x_y>>

Next ==
    \/ \E m \in Mappings, c \in CacheSizes : Construct(m, c)
    \/ \E x \in Arguments : \E same \in SUBSET HitsX(x) : Call(x, same)
    \/ \E y \in Arguments : \E same \in SUBSET HitsY(y) : Inverse(y, same)
    \/ \E x \in Preimages, y \in Images : LogAbsDetJacobian(x, y)
    \/ Bijective

Spec == Init /\ [][Next]_vars

\* ---- properties -----------------------------------------------------------
Covers(x) == DOMAIN transformations \subseteq DOMAIN x

AllBijective == \A k \in DOMAIN transformations : transformations[k].name = "Shift"

\* what the stored transform of key k returns for x: the cached image when x
\* is the object in its cache slot, and the elementary forward map otherwise
ForwardOf(k, x) ==
    IF transformations[k].cache_size = 1 /\ k \in hits
    THEN cached_x_y[k].y
    ELSE ElemForward(transformations[k], x)

\* C1: _call on a TensorDict x that covers the registry returns a TensorDict
\* with the keys of x, the forward image of x[k] under every registered key k
\* and x[k] itself under every other key.
C1_Forward ==
    (op = "_call" /\ Covers(passed[1])) =>
        /\ outcome = "ok"
        /\ DOMAIN result = DOMAIN passed[1]
        /\ \A k \in DOMAIN passed[1] :
              IF k \in DOMAIN transformations
              THEN result[k] = ForwardOf(k, passed[1][k])
              ELSE result[k] = passed[1][k]

C1_Witness ==
    /\ op = "_call"
    /\ outcome = "ok"
    /\ \E k \in DOMAIN passed[1] : k \in DOMAIN transformations /\ result[k] # passed[1][k]
    /\ \E k \in DOMAIN passed[1] : k \notin DOMAIN transformations

\* C2: with every registered transform bijective, _inverse of the result of
\* _call on x is x on every key, and _call of the result of _inverse on y is y.
C2_RoundTrip ==
    (op \in {"_call", "_inverse"} /\ origin # <<>> /\ AllBijective) =>
        /\ outcome = "ok"
        /\ result = origin[1]

C2_Witness ==
    /\ op = "_inverse"
    /\ origin # <<>>
    /\ AllBijective
    /\ \E k \in DOMAIN transformations : passed[1][k] # result[k]
    /\ \E k \in DOMAIN passed[1] : k \notin DOMAIN transformations

\* C3: log_abs_det_jacobian on x and y with the same keys, covering the
\* registry, returns a TensorDict with the keys of x, the elementary
\* log-abs-det-jacobian of (x[k], y[k]) under every registered key k and a
\* tensor of ones of the shape of x[k] under every other key.
C3_Jacobian ==
    (/\ op = "log_abs_det_jacobian"
     /\ DOMAIN passed[1] = DOMAIN passed[2]
     /\ Covers(passed[1])) =>
        /\ outcome = "ok"
        /\ DOMAIN result = DOMAIN passed[1]
        /\ \A k \in DOMAIN passed[1] :
              IF k \in DOMAIN transformations
              THEN result[k] =
                      ElemLogAbsDetJacobian(transformations[k], passed[1][k], passed[2][k])
              ELSE /\ Len(result[k]) = Len(passed[1][k])
                   /\ \A i \in 1..Len(result[k]) : result[k][i] = 1

C3_Witness ==
    /\ op = "log_abs_det_jacobian"
    /\ outcome = "ok"
    /\ \E k \in DOMAIN result : k \in DOMAIN transformations
    /\ \E k \in DOMAIN result : k \notin DOMAIN transformations /\ result[k] = <<1, 1>>

\* C4: _call and _inverse on a TensorDict that lacks a registered key raise
\* the key error and return nothing.
C4_MissingKey ==
    (op \in {"_call", "_inverse"} /\ ~Covers(passed[1])) =>
        /\ outcome = "ValueError"
        /\ message = (IF op = "_call" THEN MsgInX ELSE MsgInY)
        /\ result = Empty

C4_Witness ==
    /\ op \in {"_call", "_inverse"}
    /\ outcome = "ValueError"
    /\ DOMAIN passed[1] \cap DOMAIN transformations # {}
    /\ ~Covers(passed[1])

\* C5: log_abs_det_jacobian raises the same-keys error exactly when the keys
\* of x and y differ, raises the different covering error exactly when they
\* agree without covering the registry, and returns nothing in either case.
C5_JacobianErrors ==
    op = "log_abs_det_jacobian" =>
        /\ DOMAIN passed[1] # DOMAIN passed[2] =>
              outcome = "ValueError" /\ message = MsgSameKeys /\ result = Empty
        /\ (DOMAIN passed[1] = DOMAIN passed[2] /\ ~Covers(passed[1])) =>
              outcome = "ValueError" /\ message = MsgInXY /\ result = Empty
        /\ message = MsgSameKeys => DOMAIN passed[1] # DOMAIN passed[2]
        /\ message = MsgInXY => DOMAIN passed[1] = DOMAIN passed[2]

C5_Witness ==
    /\ op = "log_abs_det_jacobian"
    /\ message = MsgSameKeys
    /\ ~Covers(passed[1])
    /\ ~Covers(passed[2])

\* C6: construction with a value that is not a Transform raises the type
\* error whatever the cache_size, and no object exists to call.
C6_TypeRejected ==
    (\E k \in DOMAIN supplied : ~supplied[k].isTransform) =>
        /\ state = "failed"
        /\ outcome = "AssertionError"
        /\ op = "__init__"

C6_Witness ==
    /\ state = "failed"
    /\ outcome = "AssertionError"
    /\ cache_size = 1
    /\ \E k \in DOMAIN supplied : supplied[k].isTransform

\* C7 as stated: construction with a cache_size other than 0 and 1 raises the
\* cache size error for every transformations mapping.
C7_Original ==
    (op = "__init__" /\ cache_size \notin {0, 1}) =>
        state = "failed" /\ outcome = "ValueError" /\ message = MsgCacheSize

\* C7: construction with a cache_size other than 0 and 1 never creates an
\* object; it raises the cache size error when every value of the mapping is
\* a Transform (the empty mapping included) and the type error otherwise.
C7_CacheSizeRejected ==
    (state # "new" /\ cache_size \notin {0, 1}) =>
        /\ state = "failed"
        /\ op = "__init__"
        /\ IF \A k \in DOMAIN supplied : supplied[k].isTransform
           THEN outcome = "ValueError" /\ message = MsgCacheSize
           ELSE outcome = "AssertionError"

C7_Witness ==
    /\ state = "failed"
    /\ cache_size = 2
    /\ supplied # Empty
    /\ outcome = "ValueError"

C7_WitnessEmpty ==
    /\ state = "failed"
    /\ cache_size = 2
    /\ supplied = Empty

\* C8: bijective is true exactly when every registered transform is
\* bijective, and reading it changes neither the registry nor a cache.
C8_Bijective ==
    [][op' = "bijective" =>
          /\ flag' = (\A k \in DOMAIN transformations : transformations[k].name # "Abs")
          /\ transformations' = transformations
          /\ cached_x_y' = cached_x_y]_vars

C8_Witness ==
    /\ op = "bijective"
    /\ ~flag
    /\ \E k \in DOMAIN transformations : transformations[k].name = "Shift"
    /\ \E k \in DOMAIN cached_x_y : cached_x_y[k] # NoCache

C8_WitnessEmpty ==
    /\ op = "bijective"
    /\ flag
    /\ transformations = Empty

\* C9: a call of _call, _inverse or log_abs_det_jacobian, returning or
\* raising, leaves its argument TensorDicts and the registry as they were;
\* only the cache slots of the registered transforms change.
C9_Frame ==
    [][state = "constructed" =>
          /\ args' = passed'
          /\ transformations' = transformations
          /\ DOMAIN cached_x_y' = DOMAIN transformations
          /\ cache_size' = cache_size
          /\ state' = state]_vars

C9_Witness ==
    /\ op = "_call"
    /\ outcome = "ok"
    /\ result # passed[1]
    /\ args = passed
    /\ \E k \in DOMAIN cached_x_y : cached_x_y[k] # NoCache

\* C10: a constructed object stores the keys of the supplied mapping, with
\* every transform cache-enabled when cache_size is 1 and every transform as
\* supplied when cache_size is 0.
C10_CachePolicy ==
    state = "constructed" =>
        /\ DOMAIN transformations = DOMAIN supplied
        /\ cache_size = 1 =>
              \A k \in DOMAIN supplied :
                  transformations[k] = [supplied[k] EXCEPT !.cache_size = 1]
        /\ cache_size = 0 =>
              \A k \in DOMAIN supplied : transformations[k] = supplied[k]

C10_Witness ==
    /\ state = "constructed"
    /\ cache_size = 1
    /\ \E k \in DOMAIN supplied : supplied[k].cache_size = 0

C10_WitnessUncached ==
    /\ state = "constructed"
    /\ cache_size = 0
    /\ \E k \in DOMAIN supplied : supplied[k].cache_size = 1

====
